---- MODULE Spec2Model ----
(***************************************************************************)
(* A model of autoupdate_app_sources/rest_api.py: the GitHub, GitLab and   *)
(* Gitea/Forgejo REST adapters and the download-page adapter.              *)
(*                                                                         *)
(* Strings are sequences of tokens.  A token is either the separator "/"   *)
(* (or another character the code treats specially: "\\", "'", ",", "\n")  *)
(* or an atomic chunk of ordinary characters ("github.com", "archive").    *)
(* Python's None is the empty sequence where a value is optional, and      *)
(* Some(x) the one-element sequence.                                       *)
(***************************************************************************)
EXTENDS Integers, Sequences, FiniteSets, TLC

VARIABLES
    adapter,   \* the adapter object: its kind and attributes (NoAdapter before construction)
    last,      \* the latest call: operation, arguments, outcome, returned value
    http,      \* the HTTP exchanges of the latest call, in order: [url, status, body]
    firstUrl   \* the first url_for_ref call made on the adapter, with its result, and
               \* whether a later call repeated its arguments

vars == <<adapter, last, http, firstUrl>>

None == <<>>
Some(x) == <<x>>

\* ------------------------------------------------------------ bounds

MaxUpstreamLen == 5
MaxPageLen == 4
MaxAnchors == 2
MaxAssets == 2
MaxReleases == 2

\* ------------------------------------------------------------ str methods

RECURSIVE LStrip(_, _)
LStrip(s, c) ==
    IF s # <<>> /\ Head(s) = c THEN LStrip(Tail(s), c) ELSE s

RECURSIVE RStrip(_, _)
RStrip(s, c) ==
    IF s # <<>> /\ s[Len(s)] = c THEN RStrip(SubSeq(s, 1, Len(s) - 1), c) ELSE s

Strip(s, c) == RStrip(LStrip(s, c), c)

StartsWith(s, p) == Len(p) <= Len(s) /\ SubSeq(s, 1, Len(p)) = p

RECURSIVE Interleave(_, _)
Interleave(s, new) ==
    IF s = <<>> THEN new ELSE new \o <<Head(s)>> \o Interleave(Tail(s), new)

RECURSIVE ReplaceFrom(_, _, _)
ReplaceFrom(s, old, new) ==
    IF s = <<>> THEN <<>>
    ELSE IF StartsWith(s, old)
         THEN new \o ReplaceFrom(SubSeq(s, Len(old) + 1, Len(s)), old, new)
         ELSE <<Head(s)>> \o ReplaceFrom(Tail(s), old, new)

\* str.replace(old, new): every non-overlapping occurrence, leftmost first;
\* an empty old matches between all characters.
Replace(s, old, new) ==
    IF old = <<>> THEN Interleave(s, new) ELSE ReplaceFrom(s, old, new)

RECURSIVE SplitKeepEmpty(_, _)
SplitKeepEmpty(s, sep) ==
    IF \A i \in 1..Len(s) : s[i] # sep
    THEN <<s>>
    ELSE LET i == CHOOSE k \in 1..Len(s) :
                      s[k] = sep /\ \A j \in 1..(k - 1) : s[j] # sep
         IN  <<SubSeq(s, 1, i - 1)>> \o SplitKeepEmpty(SubSeq(s, i + 1, Len(s)), sep)

\* a variant of split that drops empty segments, as str.split() without a separator
\* does: C1 must tell it from Split
RECURSIVE SplitDropEmpty(_, _)
SplitDropEmpty(s, sep) ==
    LET t == LStrip(s, sep)
    IN  IF t = <<>> THEN <<>>
        ELSE IF \A i \in 1..Len(t) : t[i] # sep
        THEN <<t>>
        ELSE LET i == CHOOSE k \in 1..Len(t) :
                          t[k] = sep /\ \A j \in 1..(k - 1) : t[j] # sep
             IN  <<SubSeq(t, 1, i - 1)>> \o SplitDropEmpty(SubSeq(t, i + 1, Len(t)), sep)

\* str.split(sep) with an explicit separator: empty segments are kept.
Split(s, sep) == SplitKeepEmpty(s, sep)

RECURSIVE SeqsUpTo(_, _)
SeqsUpTo(S, n) ==
    IF n = 0 THEN {<<>>}
    ELSE LET shorter == SeqsUpTo(S, n - 1)
         IN  shorter \cup {Append(s, x) : s \in shorter, x \in S}

\* ------------------------------------------------------------ transport

\* a variant that lets 4xx answers through: C2 must tell it from RaiseForStatus
RaiseAbove500(status) == status >= 500 /\ status < 600

\* requests.Response.raise_for_status: an HTTPError for a 4xx or 5xx status.
RaiseForStatus(status) == status >= 400 /\ status < 600

Statuses == {200, 404, 500}

Ok(v) == [outcome |-> "ok", status |-> 0, value |-> v]
Raised(e) == [outcome |-> e, status |-> 0, value |-> None]
HTTPError(status) == [outcome |-> "HTTPError", status |-> status, value |-> None]

\* r.raise_for_status(), then the body of the response (r.json(), r.text)
BodyOrRaise(resp) ==
    IF RaiseForStatus(resp.status) THEN HTTPError(resp.status) ELSE Ok(resp.body)

Exchange(url, resp) == [url |-> url, status |-> resp.status, body |-> resp.body]

Responses(bodies) == [status : Statuses, body : bodies]

\* ------------------------------------------------------------ RefType

RefTypes == {"tags", "commits", "releases"}
\* what a caller can pass for ref_type: a member of the enumeration or anything else
RefKinds == RefTypes \cup {"other"}

Refs == {<<"v1">>, <<"abc123">>, <<"rel", "/", "1">>}
Branches == {<<"main">>, <<"dev">>}

NoAdapter == [kind |-> "none"]
NoCall == [op |-> "none", args |-> None, outcome |-> "ok", status |-> 0, value |-> None]
Call(op, args, res) ==
    [op |-> op, args |-> args, outcome |-> res.outcome, status |-> res.status,
     value |-> res.value]

Init ==
    /\ adapter = NoAdapter
    /\ last = NoCall
    /\ http = <<>>
    /\ firstUrl = None

\* ------------------------------------------------------------ GithubAPI

GithubPrefix == <<"https:", "/", "/", "github.com", "/">>
GithubApiRoot == <<"https:", "/", "/", "api.github.com", "/">>

Auths == {None, <<"user", "token">>}

GithubUpstreamRepo(upstream) == Strip(Replace(upstream, GithubPrefix, <<>>), "/")

\* the assertion of __init__
GithubIsRepo(upstream) == Len(Split(GithubUpstreamRepo(upstream), "/")) = 2

GithubInit(upstream, auth) ==
    /\ last = NoCall
    /\ http' = <<>>
    /\ firstUrl' = None
    /\ IF GithubIsRepo(upstream)
       THEN /\ adapter' = [kind |-> "github",
                           upstream |-> Strip(upstream, "/"),
                           upstream_repo |-> GithubUpstreamRepo(upstream),
                           auth |-> auth]
            /\ last' = Call("GithubAPI", [upstream |-> upstream], Ok(None))
       ELSE /\ adapter' = adapter
            /\ last' = Call("GithubAPI", [upstream |-> upstream], Raised("AssertionError"))

\* internal_api: one GET on api.github.com, raise_for_status, the JSON body
GithubInternalApi(uri, resp) ==
    [http |-> <<Exchange(GithubApiRoot \o uri, resp)>>, res |-> BodyOrRaise(resp)]

\* the ["commit"] subscript applied to what internal_api returned
Subscript(r, key) ==
    IF r.res.outcome = "ok" THEN [r EXCEPT !.res = Ok(r.res.value[key])] ELSE r

Returns(op, args, r) ==
    /\ http' = r.http
    /\ last' = Call(op, args, r.res)
    /\ UNCHANGED <<adapter, firstUrl>>

TagBodies ==
    {<<>>, <<[name |-> "v1", commit |-> [sha |-> "c1"]],
             [name |-> "v0", commit |-> [sha |-> "c0"]]>>}

GithubCommit(sha) ==
    [sha |-> sha, commit |-> [author |-> [date |-> "2024-01-01T00:00:00Z"]]]
GithubCommitBodies == {<<>>, <<GithubCommit("c1"), GithubCommit("c0")>>}
GithubBranchBodies == {[name |-> "main", commit |-> GithubCommit("c1")]}
GithubReleaseBodies ==
    {<<>>, <<[tag_name |-> "v1.0", prerelease |-> FALSE, draft |-> FALSE,
              html_url |-> "http://x/v1.0",
              assets |-> <<[name |-> "a.zip",
                            browser_download_url |-> "http://x/a.zip"]>>]>>}

GithubTags ==
    /\ adapter.kind = "github"
    /\ \E resp \in Responses(TagBodies) :
         Returns("tags", None,
                 GithubInternalApi(<<"repos", "/">> \o adapter.upstream_repo
                                   \o <<"/", "tags">>, resp))

GithubCommits ==
    /\ adapter.kind = "github"
    /\ \E resp \in Responses(GithubCommitBodies) :
         Returns("commits", None,
                 GithubInternalApi(<<"repos", "/">> \o adapter.upstream_repo
                                   \o <<"/", "commits">>, resp))

GithubTipOfBranch ==
    /\ adapter.kind = "github"
    /\ \E branch \in Branches, resp \in Responses(GithubBranchBodies) :
         Returns("tip_of_branch", [branch |-> branch],
                 Subscript(GithubInternalApi(<<"repos", "/">> \o adapter.upstream_repo
                                             \o <<"/", "branches", "/">> \o branch, resp),
                           "commit"))

GithubReleases ==
    /\ adapter.kind = "github"
    /\ \E resp \in Responses(GithubReleaseBodies) :
         Returns("releases", None,
                 GithubInternalApi(<<"repos", "/">> \o adapter.upstream_repo
                                   \o <<"/", "releases?per_page=100">>, resp))

\* a variant that ignores ref_type: C7 must tell it from GithubUrlForRefOf
GithubUrlAlwaysTagArchive(a, ref, ref_type) ==
    Ok(a.upstream \o <<"/", "archive", "/", "refs", "/", "tags", "/">> \o ref
       \o <<".tar.gz">>)

GithubUrlForRefOf(a, ref, ref_type) ==
    IF ref_type = "tags" \/ ref_type = "releases"
    THEN Ok(a.upstream \o <<"/", "archive", "/", "refs", "/", "tags", "/">> \o ref
            \o <<".tar.gz">>)
    ELSE IF ref_type = "commits"
    THEN Ok(a.upstream \o <<"/", "archive", "/">> \o ref \o <<".tar.gz">>)
    ELSE Raised("NotImplementedError")

GithubChangelogForRefOf(a, new_ref, old_ref, ref_type) ==
    IF ref_type = "commits"
    THEN Ok(a.upstream \o <<"/", "compare", "/">> \o old_ref \o <<"...">> \o new_ref)
    ELSE Ok(a.upstream \o <<"/", "releases", "/", "tag", "/">> \o new_ref)

\* a variant that requests the URL it built: C8 must tell it from UrlReturns
UrlReturnsAfterRequest(ref, ref_type, res) ==
    /\ http' = <<[url |-> res.value, status |-> 200, body |-> None]>>
    /\ last' = Call("url_for_ref", [ref |-> ref, ref_type |-> ref_type], res)
    /\ firstUrl' = IF firstUrl = None
                   THEN Some([ref |-> ref, ref_type |-> ref_type,
                              outcome |-> res.outcome, value |-> res.value,
                              repeated |-> FALSE])
                   ELSE firstUrl
    /\ UNCHANGED adapter

\* a url_for_ref call: its result, and the record of the adapter's first such call
UrlReturns(ref, ref_type, res) ==
    /\ http' = <<>>
    /\ last' = Call("url_for_ref", [ref |-> ref, ref_type |-> ref_type], res)
    /\ firstUrl' = IF firstUrl = None
                   THEN Some([ref |-> ref, ref_type |-> ref_type,
                              outcome |-> res.outcome, value |-> res.value,
                              repeated |-> FALSE])
                   ELSE IF firstUrl[1].ref = ref /\ firstUrl[1].ref_type = ref_type
                   THEN Some([firstUrl[1] EXCEPT !.repeated = TRUE])
                   ELSE firstUrl
    /\ UNCHANGED adapter

ChangelogReturns(new_ref, old_ref, ref_type, res) ==
    /\ http' = <<>>
    /\ last' = Call("changelog_for_ref",
                    [new_ref |-> new_ref, old_ref |-> old_ref, ref_type |-> ref_type],
                    res)
    /\ UNCHANGED <<adapter, firstUrl>>

GithubUrlForRef ==
    /\ adapter.kind = "github"
    /\ \E ref \in Refs, ref_type \in RefKinds :
         UrlReturns(ref, ref_type, GithubUrlForRefOf(adapter, ref, ref_type))

GithubChangelogForRef ==
    /\ adapter.kind = "github"
    /\ \E new_ref \in Refs, old_ref \in Refs, ref_type \in RefKinds :
         ChangelogReturns(new_ref, old_ref, ref_type,
                          GithubChangelogForRefOf(adapter, new_ref, old_ref, ref_type))

\* ------------------------------------------------------------ GitlabAPI

\* the two literals of the pattern  const url = ~(.*)/api/graphql~  where ~ stands
\* for the backquote, a character a TLA+ string cannot hold
GitlabMarkerPrefix == "const url = ~"
GitlabMarkerSuffix == "/api/graphql~"

\* where "." stops matching: the first newline at or after position i
RECURSIVE LineEnd(_, _)
LineEnd(text, i) ==
    IF i > Len(text) \/ text[i] = "\n" THEN i ELSE LineEnd(text, i + 1)

\* the last suffix in from..to (0 when there is none): ".*" is greedy
RECURSIVE LastSuffix(_, _, _)
LastSuffix(text, from, to) ==
    IF to < from THEN 0
    ELSE IF text[to] = GitlabMarkerSuffix THEN to
    ELSE LastSuffix(text, from, to - 1)

GitlabGroupEnd(text, from, to) == LastSuffix(text, from, to)

\* re.search from position i: the leftmost prefix from which the pattern matches;
\* Some(group 1) or None
RECURSIVE GitlabSearchFrom(_, _)
GitlabSearchFrom(text, i) ==
    IF i > Len(text) THEN None
    ELSE IF text[i] = GitlabMarkerPrefix
              /\ GitlabGroupEnd(text, i + 1, LineEnd(text, i + 1) - 1) # 0
    THEN Some(SubSeq(text, i + 1,
                     GitlabGroupEnd(text, i + 1, LineEnd(text, i + 1) - 1) - 1))
    ELSE GitlabSearchFrom(text, i + 1)

\* get_forge_root on the fetched text: assert match is not None; match.group(1)
GitlabRootOf(text) ==
    LET match == GitlabSearchFrom(text, 1)
    IN  IF match = None THEN Raised("AssertionError") ELSE Ok(match[1])

\* get_forge_root: GET the project page, raise_for_status, search the text
GitlabGetForgeRoot(project_url, resp) ==
    [http |-> <<Exchange(project_url, resp)>>,
     res |-> IF RaiseForStatus(resp.status) THEN HTTPError(resp.status)
             ELSE GitlabRootOf(resp.body)]

GitlabApiUrl(forge_root, uri) == forge_root \o <<"/", "api", "/", "v4", "/">> \o uri

\* internal_api: one GET under <forge_root>/api/v4, raise_for_status, the JSON body
GitlabInternalApi(forge_root, uri, resp) ==
    [http |-> <<Exchange(GitlabApiUrl(forge_root, uri), resp)>>,
     res |-> BodyOrRaise(resp)]

GitlabLookupUri(project) == <<"projects", "/">> \o Replace(project, <<"/">>, <<"%2F">>)
GitlabSearchUri(project_path) ==
    LET segments == Split(project_path, "/")
    IN  <<"projects?search=">> \o segments[Len(segments)]

\* a variant that takes the first search result unfiltered: C3 must tell it from
\* NextMatching
FirstResult(projects, project_path) ==
    IF projects = <<>> THEN Raised("StopIteration") ELSE Ok(Head(projects))

\* next(filter(lambda x: x.get("path_with_namespace") == project_path, projects))
RECURSIVE NextMatching(_, _)
NextMatching(projects, project_path) ==
    IF projects = <<>> THEN Raised("StopIteration")
    ELSE IF Head(projects).path_with_namespace = project_path THEN Ok(Head(projects))
    ELSE NextMatching(Tail(projects), project_path)

\* a variant that falls back to the search on any HTTP error: C10 must tell it from
\* GitlabSecondChance
SearchAfterAnyError(status) == TRUE

\* except HTTPError as err: if err.response.status_code != 404: raise
GitlabSecondChance(status) == status = 404

\* find_project_id, given the answers to the lookup and (if sent) the search
GitlabFindProjectId(forge_root, project_path, lookup, search) ==
    LET first == GitlabInternalApi(forge_root, GitlabLookupUri(project_path), lookup)
        second == GitlabInternalApi(forge_root, GitlabSearchUri(project_path), search)
        found == NextMatching(second.res.value, project_path)
    IN  IF first.res.outcome = "ok"
        THEN [http |-> first.http, res |-> Ok(first.res.value.id)]
        ELSE IF ~GitlabSecondChance(first.res.status)
        THEN first
        ELSE IF second.res.outcome # "ok"
        THEN [http |-> first.http \o second.http, res |-> second.res]
        ELSE [http |-> first.http \o second.http,
              res |-> IF found.outcome = "ok" THEN Ok(found.value.id) ELSE found]

\* The forge the requests reach: its root, its projects, and what it may answer.
ForgeRoot == <<"https:", "/", "/", "forge.example">>
ForgeProjects ==
    {[id |-> 7, path_with_namespace |-> <<"grp", "/", "app">>],
     [id |-> 8, path_with_namespace |-> <<"other", "/", "app">>],
     [id |-> 9, path_with_namespace |-> <<"grp", "/", "lib">>]}
ProjectPaths ==
    {p.path_with_namespace : p \in ForgeProjects} \cup {<<"grp", "/", "gone">>}

ErrorResponses == {[status |-> s, body |-> None] : s \in Statuses \ {200}}

\* GET projects/<url-encoded path>: the project at that path; a 404 when there is
\* none, and on the instances whose lookup is unreliable even when there is one
LookupResponses(url) ==
    {[status |-> 200, body |-> p] :
        p \in {q \in ForgeProjects :
                 url = GitlabApiUrl(ForgeRoot,
                          <<"projects", "/">>
                          \o Replace(q.path_with_namespace, <<"/">>, <<"%2F">>))}}
    \cup ErrorResponses

NoRepeat(s) == \A i, j \in 1..Len(s) : s[i] = s[j] => i = j

\* GET projects?search=<name>: the projects with a path segment <name>, in any order
SearchResponses(url) ==
    LET hits == {q \in ForgeProjects :
                   \E i \in 1..Len(q.path_with_namespace) :
                      /\ q.path_with_namespace[i] # "/"
                      /\ url = GitlabApiUrl(ForgeRoot,
                                   <<"projects?search=", q.path_with_namespace[i]>>)}
    IN  {[status |-> 200, body |-> l] :
            l \in {m \in SeqsUpTo(hits, Cardinality(hits)) : NoRepeat(m)}}
        \cup ErrorResponses

GitlabPage == <<"<script>", GitlabMarkerPrefix>> \o ForgeRoot \o <<GitlabMarkerSuffix, "\n">>
GitlabPages ==
    {GitlabPage,
     <<GitlabMarkerPrefix>> \o ForgeRoot \o <<"/", GitlabMarkerSuffix>>,
     <<"<html>", "\n">>}

ForgeUpstreams ==
    {ForgeRoot \o <<"/">> \o p \o t : p \in ProjectPaths, t \in {<<>>, <<"/">>}}

\* __init__: the forge root, the project path, the project id
GitlabInit(upstream, page, lookup, search) ==
    LET root == GitlabGetForgeRoot(upstream, page)
        forge_root == RStrip(root.res.value, "/")
        project_path == Strip(Replace(upstream, forge_root, <<>>), "/")
        id == GitlabFindProjectId(forge_root, project_path, lookup, search)
        args == [upstream |-> upstream]
    IN  /\ last = NoCall
        /\ firstUrl' = None
        /\ IF root.res.outcome # "ok"
           THEN /\ http' = root.http
                /\ last' = Call("GitlabAPI", args, root.res)
                /\ adapter' = adapter
           ELSE /\ http' = root.http \o id.http
                /\ IF id.res.outcome # "ok"
                   THEN /\ last' = Call("GitlabAPI", args, id.res)
                        /\ adapter' = adapter
                   ELSE /\ last' = Call("GitlabAPI", args, Ok(None))
                        /\ adapter' = [kind |-> "gitlab",
                                       forge_root |-> forge_root,
                                       project_path |-> project_path,
                                       project_id |-> id.res.value]

GitlabConstruct ==
    \E upstream \in ForgeUpstreams, page \in Responses(GitlabPages) :
      LET forge_root == RStrip(GitlabRootOf(page.body).value, "/")
          project_path == Strip(Replace(upstream, forge_root, <<>>), "/")
      IN  \E lookup \in LookupResponses(
                           GitlabApiUrl(forge_root, GitlabLookupUri(project_path))),
             search \in SearchResponses(
                           GitlabApiUrl(forge_root, GitlabSearchUri(project_path))) :
            GitlabInit(upstream, page, lookup, search)

IdText(project_id) == <<ToString(project_id)>>

GitlabCommitInfo(commit) ==
    [sha |-> commit.id, commit |-> [author |-> [date |-> commit.committed_date]]]

GitlabNativeCommit(id) == [id |-> id, committed_date |-> "2024-01-01T00:00:00Z"]
GitlabCommitBodies == {<<>>, <<GitlabNativeCommit("abc123"), GitlabNativeCommit("c0")>>}
GitlabBranchBodies == {[name |-> "main", commit |-> GitlabNativeCommit("abc123")]}

\* a variant that fetches the project page again before the API call: C9 must tell
\* it from GitlabCall
GitlabCallRediscovering(a, uri, resp) ==
    LET r == GitlabInternalApi(a.forge_root, uri, resp)
    IN  [r EXCEPT !.http = <<[url |-> a.forge_root \o <<"/">> \o a.project_path,
                              status |-> 200, body |-> None]>> \o r.http]

\* an operation's single call of internal_api, and what becomes of the JSON
GitlabCall(a, uri, resp) == GitlabInternalApi(a.forge_root, uri, resp)


GitlabTags ==
    /\ adapter.kind = "gitlab"
    /\ \E resp \in Responses(TagBodies) :
         Returns("tags", None,
                 GitlabCall(adapter, <<"projects", "/">> \o IdText(adapter.project_id)
                                     \o <<"/", "repository", "/", "tags">>, resp))

GitlabCommitInfos(commits) == [i \in 1..Len(commits) |-> GitlabCommitInfo(commits[i])]

GitlabCommitsOf(a, resp) ==
    LET r == GitlabCall(a, <<"projects", "/">> \o IdText(a.project_id)
                           \o <<"/", "repository", "/", "commits">>, resp)
    IN  IF r.res.outcome = "ok"
        THEN [r EXCEPT !.res = Ok(GitlabCommitInfos(r.res.value))]
        ELSE r

GitlabCommits ==
    /\ adapter.kind = "gitlab"
    /\ \E resp \in Responses(GitlabCommitBodies) :
         Returns("commits", None, GitlabCommitsOf(adapter, resp))

GitlabTipOfBranchOf(a, branch, resp) ==
    LET r == Subscript(GitlabCall(a, <<"projects", "/">> \o IdText(a.project_id)
                                     \o <<"/", "repository", "/", "branches", "/">>
                                     \o branch, resp),
                       "commit")
    IN  IF r.res.outcome = "ok"
        THEN [r EXCEPT !.res = Ok(GitlabCommitInfo(r.res.value))]
        ELSE r

GitlabTipOfBranch ==
    /\ adapter.kind = "gitlab"
    /\ \E branch \in Branches, resp \in Responses(GitlabBranchBodies) :
         Returns("tip_of_branch", [branch |-> branch],
                 GitlabTipOfBranchOf(adapter, branch, resp))

GitlabLinkAsset(asset) ==
    [name |-> asset.name, browser_download_url |-> asset.direct_asset_url]

GitlabSourceAsset(source) ==
    [name |-> <<"source.">> \o source.format, browser_download_url |-> source.url]

\* a variant that forgets the sources: C5 must tell it from GitlabAssets
GitlabAssetsLinksOnly(release) ==
    [i \in 1..Len(release.assets.links) |-> GitlabLinkAsset(release.assets.links[i])]

\* the "assets" of one release: the links remapped, then one asset per source
GitlabAssets(release) ==
    [i \in 1..Len(release.assets.links) |-> GitlabLinkAsset(release.assets.links[i])]
    \o [i \in 1..Len(release.assets.sources) |->
           GitlabSourceAsset(release.assets.sources[i])]

GitlabReleaseInfo(release) ==
    [tag_name |-> release.tag_name,
     prerelease |-> FALSE,
     draft |-> FALSE,
     html_url |-> release.links.self,
     assets |-> GitlabAssets(release)]

GitlabReleaseInfos(releases) ==
    [i \in 1..Len(releases) |-> GitlabReleaseInfo(releases[i])]

NativeLinks ==
    {[name |-> <<"a.deb">>, direct_asset_url |-> "http://x/a.deb"],
     [name |-> <<"b.rpm">>, direct_asset_url |-> "http://x/b.rpm"]}
NativeSources ==
    {[format |-> <<"zip">>, url |-> "http://x/src.zip"],
     [format |-> <<"tar", ".", "gz">>, url |-> "http://x/src.tar.gz"]}

\* a native release; "links" stands for the JSON key "_links"
NativeRelease(links, sources) ==
    [tag_name |-> "v1.0",
     links |-> [self |-> "http://x/releases/v1.0"],
     assets |-> [links |-> links, sources |-> sources]]

NativeReleases ==
    {NativeRelease(l, s) :
        <<l, s>> \in {x \in SeqsUpTo(NativeLinks, MaxAssets)
                            \X SeqsUpTo(NativeSources, MaxAssets) :
                        Len(x[1]) + Len(x[2]) <= MaxAssets}}

GitlabReleaseBodies ==
    {<<>>,
     <<NativeRelease(<<[name |-> <<"a.deb">>, direct_asset_url |-> "http://x/a.deb"]>>,
                     <<[format |-> <<"zip">>, url |-> "http://x/src.zip"]>>)>>}

GitlabReleasesResult(a, resp) ==
    LET r == GitlabCall(a, <<"projects", "/">> \o IdText(a.project_id)
                           \o <<"/", "releases">>, resp)
    IN  IF r.res.outcome = "ok"
        THEN [r EXCEPT !.res = Ok(GitlabReleaseInfos(r.res.value))]
        ELSE r

GitlabReleasesOf(resp) ==
    /\ adapter.kind = "gitlab"
    /\ Returns("releases", [native |-> resp.body], GitlabReleasesResult(adapter, resp))

GitlabReleases == \E resp \in Responses(GitlabReleaseBodies) : GitlabReleasesOf(resp)

GitlabUrlForRefOf(a, ref, ref_type) ==
    LET segments == Split(a.project_path, "/")
        name == segments[Len(segments)]
        clean_ref == Replace(ref, <<"/">>, <<"-">>)
    IN  Ok(a.forge_root \o <<"/">> \o a.project_path \o <<"/", "-", "/", "archive", "/">>
           \o ref \o <<"/">> \o name \o <<"-">> \o clean_ref \o <<".tar.bz2">>)

GitlabChangelogForRefOf(a, new_ref, old_ref, ref_type) ==
    LET project == a.forge_root \o <<"/">> \o a.project_path
    IN  IF ref_type = "commits"
        THEN Ok(project \o <<"/", "-", "/", "compare", "/">> \o old_ref \o <<"...">>
                \o new_ref)
        ELSE IF ref_type = "tags"
        THEN Ok(project \o <<"/", "-", "/", "tags", "/">> \o new_ref)
        ELSE IF ref_type = "releases"
        THEN Ok(project \o <<"/", "-", "/", "releases", "/">> \o new_ref)
        ELSE Raised("NotImplementedError")

GitlabUrlForRef ==
    /\ adapter.kind = "gitlab"
    /\ \E ref \in Refs, ref_type \in RefKinds :
         UrlReturns(ref, ref_type, GitlabUrlForRefOf(adapter, ref, ref_type))

GitlabChangelogForRef ==
    /\ adapter.kind = "gitlab"
    /\ \E new_ref \in Refs, old_ref \in Refs, ref_type \in RefKinds :
         ChangelogReturns(new_ref, old_ref, ref_type,
                          GitlabChangelogForRefOf(adapter, new_ref, old_ref, ref_type))

\* get_forge_root called on a constructed adapter
GitlabForgeRootOf(pages) ==
    /\ adapter.kind = "gitlab"
    /\ \E resp \in Responses(pages) :
         Returns("get_forge_root", [text |-> resp.body],
                 GitlabGetForgeRoot(adapter.forge_root \o <<"/">> \o adapter.project_path,
                                    resp))

\* ------------------------------------------------------------ GiteaForgejoAPI

\* the literals of the pattern r"appUrl: '([^']*)',": the prefix, the closing
\* quote followed by a comma, and a quote followed by anything else
GiteaMarkerPrefix == "appUrl: '"
QuoteComma == "',"
Quote == "'"
HasQuote == {GiteaMarkerPrefix, QuoteComma, Quote}

\* where "[^']*" stops: the first token with a quote at or after position i
RECURSIVE GroupEnd(_, _)
GroupEnd(text, i) ==
    IF i > Len(text) \/ text[i] \in HasQuote THEN i ELSE GroupEnd(text, i + 1)

RECURSIVE GiteaSearchFrom(_, _)
GiteaSearchFrom(text, i) ==
    IF i > Len(text) THEN None
    ELSE IF /\ text[i] = GiteaMarkerPrefix
            /\ GroupEnd(text, i + 1) <= Len(text)
            /\ text[GroupEnd(text, i + 1)] = QuoteComma
    THEN Some(SubSeq(text, i + 1, GroupEnd(text, i + 1) - 1))
    ELSE GiteaSearchFrom(text, i + 1)

\* a variant that keeps the backslashes: C6 must tell it from GiteaRootOf
GiteaRootEscaped(text) ==
    LET match == GiteaSearchFrom(text, 1)
    IN  IF match = None THEN Raised("AssertionError") ELSE Ok(match[1])

\* assert match is not None; match.group(1).replace("\\", "")
GiteaRootOf(text) ==
    LET match == GiteaSearchFrom(text, 1)
    IN  IF match = None THEN Raised("AssertionError")
        ELSE Ok(Replace(match[1], <<"\\">>, <<>>))

GiteaGetForgeRoot(project_url, resp) ==
    [http |-> <<Exchange(project_url, resp)>>,
     res |-> IF RaiseForStatus(resp.status) THEN HTTPError(resp.status)
             ELSE GiteaRootOf(resp.body)]

GiteaPage ==
    <<"<script>", GiteaMarkerPrefix, "https:", "\\", "/", "\\", "/", "forge.example",
      "\\", "/", QuoteComma>>
GiteaPages ==
    {GiteaPage,
     <<GiteaMarkerPrefix>> \o ForgeRoot \o <<QuoteComma>>,
     <<"<html>", "\n">>}

GiteaInit(upstream, page) ==
    LET root == GiteaGetForgeRoot(upstream, page)
        forge_root == RStrip(root.res.value, "/")
        args == [upstream |-> upstream]
    IN  /\ last = NoCall
        /\ firstUrl' = None
        /\ http' = root.http
        /\ IF root.res.outcome # "ok"
           THEN /\ last' = Call("GiteaForgejoAPI", args, root.res)
                /\ adapter' = adapter
           ELSE /\ last' = Call("GiteaForgejoAPI", args, Ok(None))
                /\ adapter' = [kind |-> "gitea",
                               forge_root |-> forge_root,
                               project_path |->
                                   LStrip(Replace(upstream, forge_root, <<>>), "/")]

GiteaConstruct ==
    \E upstream \in ForgeUpstreams, page \in Responses(GiteaPages) :
       GiteaInit(upstream, page)

\* internal_api: one GET under <forge_root>/api/v1, raise_for_status, the JSON body
GiteaInternalApi(forge_root, uri, resp) ==
    [http |-> <<Exchange(forge_root \o <<"/", "api", "/", "v1", "/">> \o uri, resp)>>,
     res |-> BodyOrRaise(resp)]

GiteaCall(a, uri, resp) == GiteaInternalApi(a.forge_root, uri, resp)

GiteaCommitInfo(commit) ==
    [sha |-> commit.id, commit |-> [author |-> [date |-> commit.timestamp]]]

GiteaBranchBodies ==
    {[name |-> "main",
      commit |-> [id |-> "deadbeef", timestamp |-> "2024-06-01T00:00:00Z"]]}

GiteaTags ==
    /\ adapter.kind = "gitea"
    /\ \E resp \in Responses(TagBodies) :
         Returns("tags", None,
                 GiteaCall(adapter, <<"repos", "/">> \o adapter.project_path
                                    \o <<"/", "tags">>, resp))

GiteaCommits ==
    /\ adapter.kind = "gitea"
    /\ \E resp \in Responses(GithubCommitBodies) :
         Returns("commits", None,
                 GiteaCall(adapter, <<"repos", "/">> \o adapter.project_path
                                    \o <<"/", "commits">>, resp))

GiteaTipOfBranchOf(a, branch, resp) ==
    LET r == Subscript(GiteaCall(a, <<"repos", "/">> \o a.project_path
                                    \o <<"/", "branches", "/">> \o branch, resp),
                       "commit")
    IN  IF r.res.outcome = "ok"
        THEN [r EXCEPT !.res = Ok(GiteaCommitInfo(r.res.value))]
        ELSE r

GiteaTipOfBranch ==
    /\ adapter.kind = "gitea"
    /\ \E branch \in Branches, resp \in Responses(GiteaBranchBodies) :
         Returns("tip_of_branch", [branch |-> branch],
                 GiteaTipOfBranchOf(adapter, branch, resp))

GiteaReleases ==
    /\ adapter.kind = "gitea"
    /\ \E resp \in Responses(GithubReleaseBodies) :
         Returns("releases", None,
                 GiteaCall(adapter, <<"repos", "/">> \o adapter.project_path
                                    \o <<"/", "releases">>, resp))

GiteaUrlForRefOf(a, ref, ref_type) ==
    Ok(a.forge_root \o <<"/">> \o a.project_path \o <<"/", "archive", "/">> \o ref
       \o <<".tar.gz">>)

GiteaChangelogForRefOf(a, new_ref, old_ref, ref_type) ==
    LET project == a.forge_root \o <<"/">> \o a.project_path
    IN  IF ref_type = "commits"
        THEN Ok(project \o <<"/", "compare", "/">> \o old_ref \o <<"...">> \o new_ref)
        ELSE Ok(project \o <<"/", "releases", "/", "tag", "/">> \o new_ref)

GiteaUrlForRef ==
    /\ adapter.kind = "gitea"
    /\ \E ref \in Refs, ref_type \in RefKinds :
         UrlReturns(ref, ref_type, GiteaUrlForRefOf(adapter, ref, ref_type))

GiteaChangelogForRef ==
    /\ adapter.kind = "gitea"
    /\ \E new_ref \in Refs, old_ref \in Refs, ref_type \in RefKinds :
         ChangelogReturns(new_ref, old_ref, ref_type,
                          GiteaChangelogForRefOf(adapter, new_ref, old_ref, ref_type))

\* get_forge_root called on a constructed adapter
GiteaForgeRootOf(pages) ==
    /\ adapter.kind = "gitea"
    /\ \E resp \in Responses(pages) :
         Returns("get_forge_root", [text |-> resp.body],
                 GiteaGetForgeRoot(adapter.forge_root \o <<"/">> \o adapter.project_path,
                                   resp))

\* ------------------------------------------------------------ DownloadPageAPI

\* An anchor of the parsed page: its child nodes in order and its href attribute
\* (None when absent).  A child is a text node or an element; "string" is the
\* child's own .string (a text node's text; an element's, None when it has none).
TextNode(t) == [tag |-> FALSE, string |-> Some(t)]
Element(string) == [tag |-> TRUE, string |-> string]

\* bs4 Tag.string: the .string of the only child; None with no or several children
TagString(children) == IF Len(children) = 1 THEN children[1].string ELSE None

Schemes == {"http:", "https:"}

\* scheme://host of an absolute URL
Origin(url) == SubSeq(url, 1, 4)

\* the URL up to and including the last "/" of its path ("scheme://host/" without one)
RECURSIVE Directory(_)
Directory(url) ==
    IF Len(url) <= 4 THEN Origin(url) \o <<"/">>
    ELSE IF url[Len(url)] = "/" THEN url
    ELSE Directory(SubSeq(url, 1, Len(url) - 1))

\* urllib.parse.urljoin(base, url) for an absolute base and a target that is
\* absent or empty, absolute, root-relative or relative (without dot segments)
UrlJoin(base, url) ==
    IF url = None \/ url[1] = <<>> THEN base
    ELSE IF Head(url[1]) \in Schemes THEN url[1]
    ELSE IF Head(url[1]) = "/" THEN Origin(base) \o url[1]
    ELSE Directory(base) \o url[1]

\* dict insertion: a present key keeps its place and takes the new value
DictSet(d, k, v) ==
    IF \E i \in 1..Len(d) : d[i].key = k
    THEN [i \in 1..Len(d) |-> IF d[i].key = k THEN [key |-> k, value |-> v] ELSE d[i]]
    ELSE Append(d, [key |-> k, value |-> v])

\* {link.string: urljoin(self.web_page, link.get("href")) for link in anchors}
RECURSIVE LinksInto(_, _, _)
LinksInto(d, web_page, anchors) ==
    IF anchors = <<>> THEN d
    ELSE LinksInto(DictSet(d, TagString(Head(anchors).children),
                           UrlJoin(web_page, Head(anchors).href)),
                   web_page, Tail(anchors))

WebPageLinks(web_page, anchors) == LinksInto(<<>>, web_page, anchors)

WebPages ==
    {<<"http:", "/", "/", "h", "/", "dir", "/">>,
     <<"http:", "/", "/", "h", "/", "dir", "/", "page">>}

Children ==
    {<<>>, <<TextNode("Name")>>, <<TextNode("Other")>>, <<Element(Some("Name"))>>,
     <<TextNode("Name"), Element(Some("Other"))>>}
Hrefs ==
    {None, Some(<<"/", "x">>), Some(<<"y">>),
     Some(<<"http:", "/", "/", "o", "/", "z">>)}
Anchors == [children : Children, href : Hrefs]

DownloadPageInit(upstream) ==
    /\ last = NoCall
    /\ adapter' = [kind |-> "page", web_page |-> upstream]
    /\ last' = Call("DownloadPageAPI", [upstream |-> upstream], Ok(None))
    /\ http' = <<>>
    /\ firstUrl' = None

DownloadPageConstruct == \E upstream \in WebPages : DownloadPageInit(upstream)

\* GET the page, raise_for_status, the links of its anchors in document order
GetWebPageLinksResult(a, resp) ==
    [http |-> <<Exchange(a.web_page, resp)>>,
     res |-> IF RaiseForStatus(resp.status) THEN HTTPError(resp.status)
             ELSE Ok(WebPageLinks(a.web_page, resp.body))]

GetWebPageLinksOf(anchors) ==
    /\ adapter.kind = "page"
    /\ \E status \in Statuses :
         Returns("get_web_page_links", [anchors |-> anchors],
                 GetWebPageLinksResult(adapter, [status |-> status, body |-> anchors]))

PageFixtures ==
    {<<>>,
     <<[children |-> <<TextNode("Name")>>, href |-> Some(<<"/", "x">>)]>>}

GetWebPageLinks == \E anchors \in PageFixtures : GetWebPageLinksOf(anchors)

UpstreamChars == {"/", "a", "b"}
GithubUpstreams ==
    {p \o t : p \in {<<>>, GithubPrefix}, t \in SeqsUpTo(UpstreamChars, MaxUpstreamLen)}

GithubConstructAny == \E u \in GithubUpstreams, a \in Auths : GithubInit(u, a)

\* GitHub construction over every upstream string up to MaxUpstreamLen tokens
SpecGithubInit == Init /\ [][GithubConstructAny]_vars

\* ------------------------------------------------------------ specifications

GithubFixtures ==
    {GithubPrefix \o <<"a", "/", "b">>, GithubPrefix \o <<"a", "/", "b", "/">>,
     <<"a", "/", "b">>, GithubPrefix \o <<"a">>}

GithubConstruct == \E u \in GithubFixtures, a \in Auths : GithubInit(u, a)

GitlabForgeRoot == GitlabForgeRootOf(GitlabPages)
GiteaForgeRoot == GiteaForgeRootOf(GiteaPages)

Next ==
    \/ GithubConstruct
    \/ GithubTags
    \/ GithubCommits
    \/ GithubTipOfBranch
    \/ GithubReleases
    \/ GithubUrlForRef
    \/ GithubChangelogForRef
    \/ GitlabConstruct
    \/ GitlabForgeRoot
    \/ GitlabTags
    \/ GitlabCommits
    \/ GitlabTipOfBranch
    \/ GitlabReleases
    \/ GitlabUrlForRef
    \/ GitlabChangelogForRef
    \/ GiteaConstruct
    \/ GiteaForgeRoot
    \/ GiteaTags
    \/ GiteaCommits
    \/ GiteaTipOfBranch
    \/ GiteaReleases
    \/ GiteaUrlForRef
    \/ GiteaChangelogForRef
    \/ DownloadPageConstruct
    \/ GetWebPageLinks

\* One adapter's life: its construction, then any sequence of its operations.
Spec == Init /\ [][Next]_vars

\* The state after GitlabAPI("https://forge.example/grp/app") or
\* GiteaForgejoAPI("https://forge.example/grp/app") succeeded.
BuiltUpstream == ForgeRoot \o <<"/", "grp", "/", "app">>
GitlabBuilt ==
    /\ adapter = [kind |-> "gitlab", forge_root |-> ForgeRoot,
                  project_path |-> <<"grp", "/", "app">>, project_id |-> 7]
    /\ last = Call("GitlabAPI", [upstream |-> BuiltUpstream], Ok(None))
    /\ http = <<[url |-> BuiltUpstream, status |-> 200, body |-> GitlabPage],
                [url |-> GitlabApiUrl(ForgeRoot, <<"projects", "/", "grp", "%2F", "app">>),
                 status |-> 200,
                 body |-> [id |-> 7, path_with_namespace |-> <<"grp", "/", "app">>]]>>
    /\ firstUrl = None
GiteaBuilt ==
    /\ adapter = [kind |-> "gitea", forge_root |-> ForgeRoot,
                  project_path |-> <<"grp", "/", "app">>]
    /\ last = Call("GiteaForgejoAPI", [upstream |-> BuiltUpstream], Ok(None))
    /\ http = <<[url |-> BuiltUpstream, status |-> 200, body |-> GiteaPage]>>
    /\ firstUrl = None

GitlabTexts == SeqsUpTo({GitlabMarkerPrefix, GitlabMarkerSuffix, "\\", "h", "\n"}, MaxPageLen)
GiteaTexts == SeqsUpTo({GiteaMarkerPrefix, QuoteComma, Quote, "\\", "h"}, MaxPageLen)

\* the first call after construction, on any text
GitlabForgeRootAny == last.op = "GitlabAPI" /\ GitlabForgeRootOf(GitlabTexts)
GiteaForgeRootAny == last.op = "GiteaForgejoAPI" /\ GiteaForgeRootOf(GiteaTexts)

\* get_forge_root of a constructed GitLab or Gitea adapter over every page text up
\* to MaxPageLen tokens
SpecRoot == (GitlabBuilt \/ GiteaBuilt) /\ [][GitlabForgeRootAny \/ GiteaForgeRootAny]_vars

GetWebPageLinksAny ==
    /\ last.op = "DownloadPageAPI"
    /\ \E anchors \in SeqsUpTo(Anchors, MaxAnchors) : GetWebPageLinksOf(anchors)

\* the download-page adapter over every page of up to MaxAnchors anchors
SpecLinks == Init /\ [][DownloadPageConstruct \/ GetWebPageLinksAny]_vars

GitlabReleasesAny ==
    /\ last.op = "GitlabAPI"
    /\ \E resp \in Responses(SeqsUpTo(NativeReleases, MaxReleases)) : GitlabReleasesOf(resp)

\* releases() of a constructed GitLab adapter over every list of up to MaxReleases
\* native releases with up to MaxAssets links and sources each
SpecReleases == GitlabBuilt /\ [][GitlabReleasesAny]_vars

\* ------------------------------------------------------------ C1

NumSlashes(s) == Cardinality({i \in 1..Len(s) : s[i] = "/"})

\* C1: GitHub construction succeeds for every upstream that reduces (prefix
\* removed, surrounding slashes stripped) to exactly two path segments, and fails
\* with the assertion error, leaving no adapter, for every other upstream.
C1_GithubConstruction ==
    last.op = "GithubAPI" =>
        LET repo == Strip(Replace(last.args.upstream, GithubPrefix, <<>>), "/")
        IN  IF NumSlashes(repo) = 1
            THEN /\ last.outcome = "ok"
                 /\ adapter.kind = "github"
                 /\ adapter.upstream_repo = repo
            ELSE /\ last.outcome = "AssertionError"
                 /\ adapter = NoAdapter

C1_Witness ==
    /\ last.op = "GithubAPI"
    /\ last.outcome = "AssertionError"
    /\ last.args.upstream = GithubPrefix \o <<"a", "/", "/", "b">>

\* ------------------------------------------------------------ C2

NetworkOps == {"tags", "commits", "tip_of_branch", "releases", "get_web_page_links"}

\* C2: whenever the request of a network operation (tags, commits, tip_of_branch,
\* releases, get_web_page_links) of any adapter is answered with HTTP 404, the
\* operation ends in HTTPError carrying status 404 and returns no value.
C2_NotFoundRaises ==
    (last.op \in NetworkOps /\ \E i \in 1..Len(http) : http[i].status = 404) =>
        /\ last.outcome = "HTTPError"
        /\ last.status = 404
        /\ last.value = None

C2_Witness ==
    /\ adapter.kind = "gitea"
    /\ last.op = "tip_of_branch"
    /\ Len(http) = 1
    /\ http[1].status = 404
    /\ last.outcome = "HTTPError"

\* ------------------------------------------------------------ C3

\* the project path an upstream of the forge stands for
PathOf(upstream) == Strip(SubSeq(upstream, Len(ForgeRoot) + 1, Len(upstream)), "/")

EncodedPath(path) == [i \in 1..Len(path) |-> IF path[i] = "/" THEN "%2F" ELSE path[i]]

LookupUrl(path) ==
    ForgeRoot \o <<"/", "api", "/", "v4", "/", "projects", "/">> \o EncodedPath(path)
SearchUrl(path) ==
    ForgeRoot \o <<"/", "api", "/", "v4", "/", "projects?search=", path[Len(path)]>>

Matches(results, path) ==
    {i \in 1..Len(results) : results[i].path_with_namespace = path}

\* C3: GitLab construction resolves the project id by the exact-path lookup first;
\* on a 404 it searches by the last path segment and keeps the first result whose
\* path_with_namespace equals the project path; a search that answers without such
\* a result fails the construction with StopIteration (the code's
\* ProjectNotFoundError); a constructed adapter holds the id of the forge's
\* project at its project path.
C3_ProjectIdResolution ==
    (last.op = "GitlabAPI" /\ Len(http) >= 2) =>
        LET path == PathOf(last.args.upstream)
        IN  /\ http[2].url = LookupUrl(path)
            /\ http[2].status = 200 =>
                   /\ last.outcome = "ok"
                   /\ adapter.project_id = http[2].body.id
            /\ http[2].status = 404 =>
                   /\ Len(http) = 3
                   /\ http[3].url = SearchUrl(path)
                   /\ http[3].status = 200 =>
                        IF Matches(http[3].body, path) = {}
                        THEN last.outcome = "StopIteration" /\ adapter = NoAdapter
                        ELSE /\ last.outcome = "ok"
                             /\ \E i \in Matches(http[3].body, path) :
                                  /\ \A j \in Matches(http[3].body, path) : i <= j
                                  /\ adapter.project_id = http[3].body[i].id
            /\ last.outcome = "ok" =>
                   /\ adapter.kind = "gitlab"
                   /\ adapter.project_path = path
                   /\ \E p \in ForgeProjects :
                        /\ p.path_with_namespace = adapter.project_path
                        /\ p.id = adapter.project_id

C3_Witness ==
    /\ last.op = "GitlabAPI"
    /\ last.outcome = "ok"
    /\ Len(http) = 3
    /\ Len(http[3].body) = 2
    /\ http[3].body[1].path_with_namespace # adapter.project_path
    /\ adapter.project_id = http[3].body[2].id

\* ------------------------------------------------------------ C4

Keys(d) == {d[i].key : i \in 1..Len(d)}
ValueOf(d, k) == d[CHOOSE i \in 1..Len(d) : d[i].key = k].value

\* the anchors the claim counts: a text and a target
Linking(anchors) ==
    {i \in 1..Len(anchors) :
        TagString(anchors[i].children) # None /\ anchors[i].href # None}

\* C4: get_web_page_links returns one entry per text of the anchors that have both
\* a text and a target, its value the target of the last such anchor resolved
\* against the page URL; anchors without a text or without a target contribute
\* nothing (no None key, no entry made of the page's own URL).
C4_TextlessAnchorsSkipped ==
    (last.op = "get_web_page_links" /\ last.outcome = "ok") =>
        LET anchors == last.args.anchors
            links == last.value
        IN  /\ Keys(links) = {TagString(anchors[i].children) : i \in Linking(anchors)}
            /\ None \notin Keys(links)
            /\ \A k \in Keys(links) :
                 \E i \in Linking(anchors) :
                    /\ TagString(anchors[i].children) = k
                    /\ \A j \in Linking(anchors) :
                         TagString(anchors[j].children) = k => j <= i
                    /\ ValueOf(links, k) = UrlJoin(adapter.web_page, anchors[i].href)

\* ------------------------------------------------------------ C5

\* C5: GitLab releases() returns one ReleaseInfo per native release, in order; the
\* assets of each are its links remapped to {name, browser_download_url} in
\* their order, followed by one asset per source named "source.<format>" with
\* the source's URL.
C5_ReleaseAssets ==
    (adapter.kind = "gitlab" /\ last.op = "releases" /\ last.outcome = "ok") =>
        LET native == last.args.native
            infos == last.value
        IN  /\ Len(infos) = Len(native)
            /\ \A i \in 1..Len(native) :
                 LET links == native[i].assets.links
                     sources == native[i].assets.sources
                     assets == infos[i].assets
                 IN  /\ infos[i].tag_name = native[i].tag_name
                     /\ infos[i].html_url = native[i].links.self
                     /\ Len(assets) = Len(links) + Len(sources)
                     /\ \A j \in 1..Len(links) :
                          /\ assets[j].name = links[j].name
                          /\ assets[j].browser_download_url = links[j].direct_asset_url
                     /\ \A j \in 1..Len(sources) :
                          /\ assets[Len(links) + j].name = <<"source.">> \o sources[j].format
                          /\ assets[Len(links) + j].browser_download_url = sources[j].url

C5_Witness ==
    /\ last.op = "releases"
    /\ last.outcome = "ok"
    /\ Len(last.args.native) = 1
    /\ Len(last.args.native[1].assets.links) = 1
    /\ Len(last.args.native[1].assets.sources) = 1
    /\ Len(last.value[1].assets) = 2
    /\ last.value[1].assets[2].name = <<"source.", "zip">>

\* ------------------------------------------------------------ C6

WithoutEscapes(s) == SelectSeq(s, LAMBDA c : c # "\\")

\* the spans <<i, j>> the GitLab pattern can match: a prefix at i, a suffix at j, and
\* no newline between them
GitlabSpans(text) ==
    {x \in (1..Len(text)) \X (1..Len(text)) :
        /\ x[1] < x[2]
        /\ text[x[1]] = GitlabMarkerPrefix
        /\ text[x[2]] = GitlabMarkerSuffix
        /\ \A k \in (x[1] + 1)..(x[2] - 1) : text[k] # "\n"}

\* the spans the Gitea pattern can match: a prefix at i, the first quote after it at
\* j, followed by a comma
GiteaSpans(text) ==
    {x \in (1..Len(text)) \X (1..Len(text)) :
        /\ x[1] < x[2]
        /\ text[x[1]] = GiteaMarkerPrefix
        /\ text[x[2]] = QuoteComma
        /\ \A k \in (x[1] + 1)..(x[2] - 1) : text[k] \notin HasQuote}

\* the match of re.search: the leftmost start, and from it the longest match
Matched(spans) ==
    CHOOSE x \in spans :
        \A y \in spans : x[1] < y[1] \/ (x[1] = y[1] /\ x[2] >= y[2])

Group(text, span) == SubSeq(text, span[1] + 1, span[2] - 1)

\* C6 as stated: for both variants, when the page holds the marker the root returned
\* is the text between the marker's prefix and suffix with every escape character
\* removed.
C6_RootWithoutEscapes ==
    (last.op = "get_forge_root" /\ http[1].status = 200) =>
        LET text == last.args.text
            spans == IF adapter.kind = "gitlab" THEN GitlabSpans(text) ELSE GiteaSpans(text)
        IN  spans # {} =>
               /\ last.outcome = "ok"
               /\ last.value = WithoutEscapes(Group(text, Matched(spans)))

\* C6 as amended: the Gitea/Forgejo variant returns the text between prefix and
\* suffix with every backslash removed; the GitLab variant returns the text between
\* prefix and suffix unchanged, backslashes included.
C6_RootOfMarker ==
    (last.op = "get_forge_root" /\ http[1].status = 200) =>
        LET text == last.args.text
            spans == IF adapter.kind = "gitlab" THEN GitlabSpans(text) ELSE GiteaSpans(text)
        IN  IF spans = {}
            THEN last.outcome = "AssertionError"
            ELSE /\ last.outcome = "ok"
                 /\ last.value = IF adapter.kind = "gitlab"
                                 THEN Group(text, Matched(spans))
                                 ELSE WithoutEscapes(Group(text, Matched(spans)))

C6_Witness ==
    /\ last.op = "get_forge_root"
    /\ adapter.kind = "gitlab"
    /\ last.outcome = "ok"
    /\ last.args.text = <<GitlabMarkerPrefix, "h", "\\", GitlabMarkerSuffix>>
    /\ last.value = <<"h", "\\">>

\* ------------------------------------------------------------ C7

\* C7: GitHub url_for_ref returns <upstream>/archive/refs/tags/<ref>.tar.gz for
\* tags and releases, <upstream>/archive/<ref>.tar.gz for commits, and raises
\* NotImplementedError (the code's UnsupportedRefKindError) for any other kind.
C7_GithubUrlForRef ==
    (adapter.kind = "github" /\ last.op = "url_for_ref") =>
        LET ref == last.args.ref
            kind == last.args.ref_type
        IN  /\ kind \in {"tags", "releases"} =>
                 /\ last.outcome = "ok"
                 /\ last.value = adapter.upstream
                                 \o <<"/", "archive", "/", "refs", "/", "tags", "/">>
                                 \o ref \o <<".tar.gz">>
            /\ kind = "commits" =>
                 /\ last.outcome = "ok"
                 /\ last.value = adapter.upstream \o <<"/", "archive", "/">> \o ref
                                 \o <<".tar.gz">>
            /\ kind \notin RefTypes =>
                 /\ last.outcome = "NotImplementedError"
                 /\ last.value = None

C7_Witness ==
    /\ adapter.kind = "github"
    /\ last.op = "url_for_ref"
    /\ last.args.ref_type = "other"
    /\ last.outcome = "NotImplementedError"

\* ------------------------------------------------------------ C8

ForgeKinds == {"github", "gitlab", "gitea"}

\* C8: a url_for_ref call of a forge adapter issues no HTTP request and leaves the
\* adapter as it was, and a call with the arguments of the adapter's first call
\* returns what the first call returned, whatever ran in between.
C8_UrlForRefPure ==
    /\ [](last.op = "url_for_ref" =>
            /\ adapter.kind \in ForgeKinds
            /\ http = <<>>
            /\ firstUrl # None
            /\ (firstUrl[1].ref = last.args.ref
                /\ firstUrl[1].ref_type = last.args.ref_type) =>
                   /\ last.outcome = firstUrl[1].outcome
                   /\ last.value = firstUrl[1].value)
    /\ [][last'.op = "url_for_ref" => adapter' = adapter]_vars

C8_Witness ==
    /\ adapter.kind = "gitlab"
    /\ last.op = "url_for_ref"
    /\ firstUrl # None
    /\ firstUrl[1].repeated
    /\ last.value = firstUrl[1].value
    /\ last.outcome = "ok"

\* ------------------------------------------------------------ C9

ListingOps == {"tags", "commits", "tip_of_branch", "releases"}

\* C9: once constructed, an adapter keeps its forge root, project path and project
\* id through every operation, failing or not, and each of tags, commits,
\* tip_of_branch and releases issues exactly one HTTP request, an API request
\* under the root resolved at construction.
C9_ResolvedOnce ==
    /\ [][adapter.kind # "none" => adapter' = adapter]_vars
    /\ [](last.op \in ListingOps =>
            /\ Len(http) = 1
            /\ adapter.kind \in {"gitlab", "gitea"} =>
                 StartsWith(http[1].url, adapter.forge_root \o <<"/", "api", "/">>))

C9_Witness ==
    /\ adapter.kind = "gitlab"
    /\ adapter.project_id = 7
    /\ last.op = "releases"
    /\ last.outcome = "HTTPError"
    /\ Len(http) = 1

\* ------------------------------------------------------------ C10

\* C10: in GitLab construction the search request is sent only after the exact-path
\* lookup answered 404: after a successful lookup no search is sent, and a lookup
\* failing with another status ends the construction with HTTPError of that status
\* and no search.
C10_SearchOnlyAfter404 ==
    (last.op = "GitlabAPI" /\ Len(http) >= 2) =>
        /\ Len(http) <= 3
        /\ Len(http) = 3 =>
              /\ http[2].status = 404
              /\ http[3].url = SearchUrl(PathOf(last.args.upstream))
        /\ http[2].status = 200 => Len(http) = 2 /\ last.outcome = "ok"
        /\ http[2].status \notin {200, 404} =>
              /\ Len(http) = 2
              /\ last.outcome = "HTTPError"
              /\ last.status = http[2].status
              /\ adapter = NoAdapter

C10_Witness ==
    /\ last.op = "GitlabAPI"
    /\ Len(http) = 2
    /\ http[2].status = 500
    /\ last.outcome = "HTTPError"
    /\ last.status = 500

====
